---- MODULE Spec2Model ----
(***************************************************************************)
(* Personal finance tracker (src/finance.py): the Transaction /            *)
(* RecurringTransaction records, the FinanceManager ledger with its CSV    *)
(* load/save, and the Budget evaluator.                                    *)
(*                                                                         *)
(* Values.  A Python float is a record [nan, v]: a number v, or NaN, for   *)
(* which every comparison is false.  A datetime is [year, month, day,      *)
(* hour].  A CSV file is a sequence of rows and a row a sequence of text   *)
(* fields (strings); data_file is [exists, rows], the file that does not   *)
(* exist being NoFile.  A call that may raise returns [exc, val]:          *)
(* exc names the exception ("none" when it returned) and val holds the     *)
(* returned object, if any, as a sequence of length 0 or 1.                *)
(***************************************************************************)
EXTENDS Integers, Sequences, FiniteSets, TLC

VARIABLES
    transactions,   \* FinanceManager._transactions
    data_file,      \* the content of the file named by FinanceManager._data_file
    hydrated,       \* how many records the constructor's load put in the ledger
    added,          \* the Transaction arguments of the add_transaction calls so far
    last,           \* the last call on the manager: its name, argument and outcome
    ctor,           \* the last constructor call: its arguments and its outcome
    monthly_limit,  \* Budget._monthly_limit
    budget_last     \* the last call on the budget: its name, argument and outcome

vars == <<transactions, data_file, hydrated, added, last, ctor, monthly_limit, budget_last>>

---------------------------------------------------------------------------
(* Bounds *)

\* The ledger holds at most MaxLen records: add_transaction is not offered beyond it.
MaxLen == 2

---------------------------------------------------------------------------
(* Python floats *)

Float(n) == [nan |-> FALSE, v |-> n]
NaN == [nan |-> TRUE, v |-> 0]

\* a <= b on floats: false as soon as one side is NaN
FLeq(a, b) == ~a.nan /\ ~b.nan /\ a.v <= b.v
FLt(a, b) == ~a.nan /\ ~b.nan /\ a.v < b.v
FAdd(a, b) == IF a.nan \/ b.nan THEN NaN ELSE Float(a.v + b.v)
FSub(a, b) == IF a.nan \/ b.nan THEN NaN ELSE Float(a.v - b.v)

Returned(x) == [exc |-> "none", val |-> <<x>>]
Raised(e) == [exc |-> e, val |-> <<>>]

---------------------------------------------------------------------------
(* datetime *)

IsLeap(y) == y % 4 = 0 /\ (y % 100 # 0 \/ y % 400 = 0)

DaysInMonth(y, m) ==
    IF m = 2 THEN (IF IsLeap(y) THEN 29 ELSE 28)
    ELSE IF m \in {4, 6, 9, 11} THEN 30 ELSE 31

DateTime(y, m, d, h) == [year |-> y, month |-> m, day |-> d, hour |-> h]

\* what the datetime constructor accepts
ValidDate(y, m, d) == m \in 1..12 /\ d >= 1 /\ d <= DaysInMonth(y, m)

DaysBeforeYear(y) == (y - 1) * 365 + (y - 1) \div 4 - (y - 1) \div 100 + (y - 1) \div 400

RECURSIVE DaysBeforeMonth(_, _)
DaysBeforeMonth(y, m) == IF m = 1 THEN 0 ELSE DaysBeforeMonth(y, m - 1) + DaysInMonth(y, m - 1)

ToOrdinal(t) == DaysBeforeYear(t.year) + DaysBeforeMonth(t.year, t.month) + t.day

\* the date with ordinal n, at hour h; a year has 365 or 366 days, so the year of
\* ordinal n lies between n/366 and n/365 + 1
FromOrdinal(n, h) ==
    LET y == CHOOSE yy \in (n \div 366)..(n \div 365 + 1) :
                 DaysBeforeYear(yy) < n /\ n <= DaysBeforeYear(yy + 1)
        r == n - DaysBeforeYear(y)
        m == CHOOSE mm \in 1..12 :
                 DaysBeforeMonth(y, mm) < r /\ r <= DaysBeforeMonth(y, mm) + DaysInMonth(y, mm)
    IN DateTime(y, m, r - DaysBeforeMonth(y, m), h)

\* timestamp + timedelta(days=n)
PlusDays(t, n) == FromOrdinal(ToOrdinal(t) + n, t.hour)

\* replace() clamping the day to the last day of the month
Replace_clamped(t, y, m) ==
    IF ValidDate(y, m, t.day) THEN Returned(DateTime(y, m, t.day, t.hour))
    ELSE Returned(DateTime(y, m, DaysInMonth(y, m), t.hour))

\* timestamp.replace(year=y, month=m): ValueError when the day is not in that month
Replace(t, y, m) ==
    IF ValidDate(y, m, t.day) THEN Returned(DateTime(y, m, t.day, t.hour))
    ELSE Raised("ValueError")

---------------------------------------------------------------------------
(* Text encodings used by the CSV rows *)

Pad2(n) == IF n < 10 THEN "0" \o ToString(n) ELSE ToString(n)

\* datetime.isoformat()
isoformat(t) ==
    ToString(t.year) \o "-" \o Pad2(t.month) \o "-" \o Pad2(t.day)
        \o "T" \o Pad2(t.hour) \o ":00:00"

\* the datetimes whose text a file of the model can hold
TextYears == 2024..2025
TextHours == {9}
TextDates ==
    {DateTime(y, m, d, h) : y \in TextYears, m \in 1..12, d \in 1..31, h \in TextHours}

IsoTable ==
    LET valid == {t \in TextDates : ValidDate(t.year, t.month, t.day)}
        texts == {isoformat(t) : t \in valid}
    IN [s \in texts |-> CHOOSE t \in valid : isoformat(t) = s]

\* datetime.fromisoformat(s): ValueError on any text that is not a date-time
fromisoformat(s) ==
    IF s \in DOMAIN IsoTable THEN Returned(IsoTable[s]) ELSE Raised("ValueError")

\* str(amount), as csv.writer writes a float
FloatText(a) == IF a.nan THEN "nan" ELSE ToString(a.v) \o ".0"

\* the numbers whose text a file of the model can hold
TextNumbers == -2..3

FloatTable ==
    LET asFloat == {FloatText(Float(n)) : n \in TextNumbers}
        asInt == {ToString(n) : n \in TextNumbers}
    IN [s \in asFloat \cup asInt \cup {"nan"} |->
           IF s = "nan" THEN NaN
           ELSE Float(CHOOSE n \in TextNumbers : s \in {FloatText(Float(n)), ToString(n)})]

\* float(s): ValueError on any text that is not a number
ParseFloat(s) ==
    IF s \in DOMAIN FloatTable THEN Returned(FloatTable[s]) ELSE Raised("ValueError")

---------------------------------------------------------------------------
(* class Transaction *)

KINDS == {"income", "expense"}

None == <<>>
Some(x) == <<x>>

\* Transaction.__init__ rejecting amount < 0 only
Transaction_accepts_zero(amount, description, category, transaction_type, timestamp, now) ==
    IF FLt(amount, Float(0)) THEN Raised("ValueError")
    ELSE IF transaction_type \notin KINDS THEN Raised("ValueError")
    ELSE Returned([cls |-> "Transaction",
                   amount |-> amount,
                   description |-> description,
                   category |-> category,
                   type |-> transaction_type,
                   timestamp |-> IF timestamp # None THEN timestamp[1] ELSE now])

\* Transaction.__init__; timestamp is None or Some(t), now is datetime.now()
Transaction(amount, description, category, transaction_type, timestamp, now) ==
    IF FLeq(amount, Float(0)) THEN Raised("ValueError")
    ELSE IF transaction_type \notin KINDS THEN Raised("ValueError")
    ELSE Returned([cls |-> "Transaction",
                   amount |-> amount,
                   description |-> description,
                   category |-> category,
                   type |-> transaction_type,
                   timestamp |-> IF timestamp # None THEN timestamp[1] ELSE now])

\* Transaction.to_csv_row, each field as csv.writer writes it
Transaction_to_csv_row(t) ==
    <<isoformat(t.timestamp), t.type, FloatText(t.amount), t.category, t.description>>

---------------------------------------------------------------------------
(* class RecurringTransaction *)

FREQUENCIES == {"daily", "weekly", "monthly"}

\* _calculate_next_occurrence without the year rollover
_calculate_next_occurrence_same_year(timestamp, frequency) ==
    IF frequency = "daily" THEN Returned(PlusDays(timestamp, 1))
    ELSE IF frequency = "weekly" THEN Returned(PlusDays(timestamp, 7))
    ELSE LET next_month == timestamp.month + 1
             next_year == timestamp.year
         IN IF next_month > 12 THEN Replace(timestamp, next_year, 1)
            ELSE Replace(timestamp, next_year, next_month)

\* RecurringTransaction._calculate_next_occurrence
_calculate_next_occurrence(timestamp, frequency) ==
    IF frequency = "daily" THEN Returned(PlusDays(timestamp, 1))
    ELSE IF frequency = "weekly" THEN Returned(PlusDays(timestamp, 7))
    ELSE LET next_month == timestamp.month + 1
             next_year == timestamp.year
         IN IF next_month > 12 THEN Replace(timestamp, next_year + 1, 1)
            ELSE Replace(timestamp, next_year, next_month)

\* RecurringTransaction.__init__
RecurringTransaction(amount, description, category, transaction_type, frequency, timestamp, now) ==
    LET base == Transaction(amount, description, category, transaction_type, timestamp, now)
    IN IF base.exc # "none" THEN base
       ELSE IF frequency \notin FREQUENCIES THEN Raised("ValueError")
       ELSE LET b == base.val[1]
                next == _calculate_next_occurrence(b.timestamp, frequency)
            IN IF next.exc # "none" THEN next
               ELSE Returned([cls |-> "RecurringTransaction",
                              amount |-> b.amount,
                              description |-> b.description,
                              category |-> b.category,
                              type |-> b.type,
                              timestamp |-> b.timestamp,
                              frequency |-> frequency,
                              next_occurrence |-> next.val[1]])

\* to_csv_row without the override's append: the row of a plain transaction
RecurringTransaction_to_csv_row_plain(t) == Transaction_to_csv_row(t)

\* RecurringTransaction.to_csv_row
RecurringTransaction_to_csv_row(t) == Append(Transaction_to_csv_row(t), t.frequency)

\* transaction.to_csv_row(), dispatched on the object's class
to_csv_row(t) == IF t.cls = "RecurringTransaction" THEN RecurringTransaction_to_csv_row(t) ELSE Transaction_to_csv_row(t)

\* isinstance(x, Transaction)
IsTransaction(x) == x.cls \in {"Transaction", "RecurringTransaction"}

---------------------------------------------------------------------------
(* class FinanceManager *)

NoFile == [exists |-> FALSE, rows |-> <<>>]
File(rows) == [exists |-> TRUE, rows |-> rows]

HEADER == <<"timestamp", "type", "amount", "category", "description", "frequency">>

\* One pass of the body of the loop of _load_from_file: the record made from a row,
\* or the first exception the body raises on it.
LoadRow(row) ==
    IF Len(row) < 1 THEN Raised("IndexError")
    ELSE LET timestamp == fromisoformat(row[1])
         IN IF timestamp.exc # "none" THEN timestamp
            ELSE IF Len(row) < 3 THEN Raised("IndexError")
            ELSE LET amount == ParseFloat(row[3])
                 IN IF amount.exc # "none" THEN amount
                    ELSE IF Len(row) < 5 THEN Raised("IndexError")
                    ELSE IF Len(row) > 5 /\ row[6] # ""
                         THEN RecurringTransaction(amount.val[1], row[5], row[4], row[2],
                                                   row[6], Some(timestamp.val[1]),
                                                   timestamp.val[1])
                         ELSE Transaction(amount.val[1], row[5], row[4], row[2],
                                          Some(timestamp.val[1]), timestamp.val[1])

\* The loop skipping a row that raises and going on with the next
RECURSIVE LoadRows_skipping(_, _, _)
LoadRows_skipping(rows, i, acc) ==
    IF i > Len(rows) THEN [exc |-> "none", ts |-> acc]
    ELSE LET r == LoadRow(rows[i])
         IN IF r.exc # "none" THEN LoadRows_skipping(rows, i + 1, acc)
            ELSE LoadRows_skipping(rows, i + 1, Append(acc, r.val[1]))

\* The loop of _load_from_file from row i on, acc being self._transactions so far:
\* the ledger when the loop is left, and the exception that left it, if any.
RECURSIVE LoadRows(_, _, _)
LoadRows(rows, i, acc) ==
    IF i > Len(rows) THEN [exc |-> "none", ts |-> acc]
    ELSE LET r == LoadRow(rows[i])
         IN IF r.exc # "none" THEN [exc |-> r.exc, ts |-> acc]
            ELSE LoadRows(rows, i + 1, Append(acc, r.val[1]))

\* FinanceManager._load_from_file on an empty ledger: the ledger after the call and
\* the exception that reaches the caller.  io = "error" when open() or the read
\* raises OSError.  next(reader, None) drops the first row, whatever it holds.  The
\* clause "except Exception" catches what the body raised, and the records appended
\* before it stay.
_load_from_file(file, io) ==
    IF ~file.exists THEN [exc |-> "none", ts |-> <<>>]
    ELSE LET body == IF io = "error" THEN [exc |-> "OSError", ts |-> <<>>]
                     ELSE LoadRows(file.rows, 2, <<>>)
         IN [exc |-> "none", ts |-> body.ts]

\* sum(t.amount for t in ts if t.type == kind): Python's sum adds from the left,
\* starting at 0
RECURSIVE SumAmounts(_, _, _, _)
SumAmounts(ts, kind, i, acc) ==
    IF i > Len(ts) THEN acc
    ELSE IF ts[i].type = kind THEN SumAmounts(ts, kind, i + 1, FAdd(acc, ts[i].amount))
    ELSE SumAmounts(ts, kind, i + 1, acc)

get_total_income(ts) == SumAmounts(ts, "income", 1, Float(0))

\* get_total_expenses with the filter of get_total_income
get_total_expenses_income(ts) == SumAmounts(ts, "income", 1, Float(0))

get_total_expenses(ts) == SumAmounts(ts, "expense", 1, Float(0))

get_balance(ts) == FSub(get_total_income(ts), get_total_expenses(ts))

\* [t for t in ts[i:] if min_amount <= t.amount <= max_amount]
RECURSIVE AmountRange(_, _, _, _)
AmountRange(ts, min_amount, max_amount, i) ==
    IF i > Len(ts) THEN <<>>
    ELSE IF FLeq(min_amount, ts[i].amount) /\ FLeq(ts[i].amount, max_amount)
         THEN <<ts[i]>> \o AmountRange(ts, min_amount, max_amount, i + 1)
         ELSE AmountRange(ts, min_amount, max_amount, i + 1)

\* search_by_amount_range with the upper bound exclusive
search_by_amount_range_exclusive(ts, min_amount, max_amount) ==
    SelectSeq(ts, LAMBDA t : FLeq(min_amount, t.amount) /\ FLt(t.amount, max_amount))

search_by_amount_range(ts, min_amount, max_amount) == AmountRange(ts, min_amount, max_amount, 1)

\* add_transaction inserting at the front
add_transaction_front(ts, transaction) ==
    IF transaction.cls \in {"Transaction", "RecurringTransaction"}
    THEN [exc |-> "none", ts |-> <<transaction>> \o ts]
    ELSE [exc |-> "TypeError", ts |-> ts]

\* FinanceManager.add_transaction: the ledger after the call and the exception raised
add_transaction(ts, transaction) ==
    IF IsTransaction(transaction) THEN [exc |-> "none", ts |-> Append(ts, transaction)]
    ELSE [exc |-> "TypeError", ts |-> ts]

\* the rows save_to_file writes: the header, then one row per record
RECURSIVE RecordRows(_, _)
RecordRows(ts, i) == IF i > Len(ts) THEN <<>> ELSE <<to_csv_row(ts[i])>> \o RecordRows(ts, i + 1)

SavedRows(ts) == <<HEADER>> \o RecordRows(ts, 1)

\* save_to_file opening the file in append mode
save_to_file_append(ts, file, io, n) ==
    IF io = "ok" THEN [exc |-> "none", ts |-> ts, file |-> File(file.rows \o SavedRows(ts))]
    ELSE IF io = "open_failed" THEN [exc |-> "none", ts |-> ts, file |-> file]
    ELSE [exc |-> "none", ts |-> ts, file |-> File(file.rows \o SubSeq(SavedRows(ts), 1, n))]

\* FinanceManager.save_to_file: the file after the call.  io = "ok": every row was
\* written; "open_failed": open() raised and the file is as it was; "write_failed":
\* open(..., 'w') truncated the file and a write raised after n rows reached it.
\* The except clause catches the exception in both cases.
save_to_file(ts, file, io, n) ==
    IF io = "ok" THEN [exc |-> "none", ts |-> ts, file |-> File(SavedRows(ts))]
    ELSE IF io = "open_failed" THEN [exc |-> "none", ts |-> ts, file |-> file]
    ELSE [exc |-> "none", ts |-> ts, file |-> File(SubSeq(SavedRows(ts), 1, n))]

---------------------------------------------------------------------------
(* The ledger in use: a manager is constructed on a data file, then records are
   added, searched and saved, and a new manager is constructed on the same file. *)

NOW == DateTime(2024, 12, 31, 9)

Amounts == {Float(0), Float(1), Float(2)}

\* the constructor calls of the callers, and the objects they return
ConstructorCalls ==
    {Transaction(a, "Salary", "Food", k, None, NOW) : a \in Amounts, k \in KINDS}
    \cup {Transaction(NaN, "Salary", "Food", "income", None, NOW)}
    \cup {RecurringTransaction(Float(2), "Salary", "Food", "expense", f, None, NOW) :
              f \in FREQUENCIES}

Constructed == {r.val[1] : r \in {c \in ConstructorCalls : c.exc = "none"}}

\* objects that are no Transaction
NonTransactions == {[cls |-> "dict"]}

AddArguments == Constructed \cup NonTransactions

QueryAmounts == {Float(1), Float(2)}

Call(op, arg, exc, io, out) == [op |-> op, arg |-> arg, exc |-> exc, io |-> io, out |-> out]

\* rows of a stored file, well-formed and not; a header met as a data row is a row
\* with a bad timestamp
RowPlain == <<"2024-12-31T09:00:00", "income", "1.0", "Food", "Salary">>
RowMonthly == <<"2024-12-31T09:00:00", "expense", "2.0", "Food", "Salary", "monthly">>
RowBadAmount == <<"2024-12-31T09:00:00", "expense", "abc", "Food", "Salary">>

LedgerFiles ==
    {NoFile,
     File(<<HEADER, RowPlain>>),
     File(<<HEADER, RowMonthly, RowBadAmount, RowPlain>>)}

CtorIdle == [op |-> "none"]
BudgetIdle == [op |-> "none", arg |-> 0, exc |-> "none", out |-> <<>>]

\* FinanceManager(data_file)
Construct(file, io) ==
    LET r == _load_from_file(file, io)
    IN /\ transactions' = r.ts
       /\ hydrated' = Len(r.ts)
       /\ added' = <<>>
       /\ data_file' = file
       /\ last' = Call("FinanceManager", <<>>, r.exc, io, <<>>)

Init ==
    /\ \E file \in LedgerFiles, io \in {"ok", "error"} :
          LET r == _load_from_file(file, io)
          IN /\ transactions = r.ts
             /\ hydrated = Len(r.ts)
             /\ added = <<>>
             /\ data_file = file
             /\ last = Call("FinanceManager", <<>>, r.exc, io, <<>>)
    /\ ctor = CtorIdle
    /\ monthly_limit = 0
    /\ budget_last = BudgetIdle

\* an add that would be accepted is offered while the ledger is below MaxLen
AddTransaction ==
    /\ \E x \in AddArguments :
          LET r == add_transaction(transactions, x)
          IN /\ x \in Constructed => Len(transactions) < MaxLen
             /\ transactions' = r.ts
             /\ added' = IF x \in Constructed THEN Append(added, x) ELSE added
             /\ last' = Call("add_transaction", <<x>>, r.exc, "none", <<>>)
    /\ UNCHANGED <<data_file, hydrated, ctor, monthly_limit, budget_last>>

SaveToFile ==
    /\ \E io \in {"ok", "open_failed", "write_failed"} :
          \E n \in (IF io = "write_failed" THEN 0..Len(transactions) ELSE {0}) :
             LET r == save_to_file(transactions, data_file, io, n)
             IN /\ transactions' = r.ts
                /\ data_file' = r.file
                /\ last' = Call("save_to_file", <<>>, r.exc, io, <<>>)
    /\ UNCHANGED <<hydrated, added, ctor, monthly_limit, budget_last>>

\* a new manager on the same file; the read that fails is explored in SpecLoad
Reopen ==
    /\ Construct(data_file, "ok")
    /\ UNCHANGED <<ctor, monthly_limit, budget_last>>

SearchByAmountRange ==
    /\ \E min_amount \in QueryAmounts, max_amount \in QueryAmounts :
          last' = Call("search_by_amount_range", <<min_amount, max_amount>>, "none", "none",
                       search_by_amount_range(transactions, min_amount, max_amount))
    /\ UNCHANGED <<transactions, data_file, hydrated, added, ctor, monthly_limit, budget_last>>

Next == AddTransaction \/ SaveToFile \/ Reopen \/ SearchByAmountRange

Spec == Init /\ [][Next]_vars

---------------------------------------------------------------------------
(* The constructors as functions of their arguments: a call is drawn, then made. *)

CtorAmounts == {Float(-1), Float(0), Float(1), Float(2), NaN}
CtorKinds == {"income", "expense", "transfer"}
CtorFrequencies == FREQUENCIES \cup {"yearly"}
CtorDates ==
    {t \in {DateTime(y, m, d, h) : y \in {2024, 2025}, m \in 1..12,
                                   d \in {1, 28, 29, 30, 31}, h \in {0, 9}} :
        ValidDate(t.year, t.month, t.day)}
CtorTimestamps == {None} \cup {Some(t) : t \in CtorDates}

Pending == [exc |-> "pending", val |-> <<>>]

CtorCall(op, amount, transaction_type, frequency, timestamp) ==
    [op |-> op, amount |-> amount, description |-> "Salary", category |-> "Food",
     transaction_type |-> transaction_type, frequency |-> frequency,
     timestamp |-> timestamp, now |-> NOW, result |-> Pending]

InitCtor ==
    /\ ctor \in {CtorCall("Transaction", a, k, "", ts) :
                    a \in CtorAmounts, k \in CtorKinds, ts \in CtorTimestamps}
              \cup {CtorCall("RecurringTransaction", a, k, f, ts) :
                       a \in CtorAmounts, k \in CtorKinds, f \in CtorFrequencies,
                       ts \in CtorTimestamps}
    /\ transactions = <<>>
    /\ hydrated = 0
    /\ added = <<>>
    /\ data_file = NoFile
    /\ last = Call("none", <<>>, "none", "none", <<>>)
    /\ monthly_limit = 0
    /\ budget_last = BudgetIdle

NewTransaction ==
    /\ ctor.op = "Transaction"
    /\ ctor.result = Pending
    /\ ctor' = [ctor EXCEPT !.result =
                    Transaction(ctor.amount, ctor.description, ctor.category,
                                ctor.transaction_type, ctor.timestamp, ctor.now)]
    /\ UNCHANGED <<transactions, data_file, hydrated, added, last, monthly_limit, budget_last>>

NewRecurringTransaction ==
    /\ ctor.op = "RecurringTransaction"
    /\ ctor.result = Pending
    /\ ctor' = [ctor EXCEPT !.result =
                    RecurringTransaction(ctor.amount, ctor.description, ctor.category,
                                         ctor.transaction_type, ctor.frequency,
                                         ctor.timestamp, ctor.now)]
    /\ UNCHANGED <<transactions, data_file, hydrated, added, last, monthly_limit, budget_last>>

NextCtor == NewTransaction \/ NewRecurringTransaction

SpecCtor == InitCtor /\ [][NextCtor]_vars

---------------------------------------------------------------------------
(* Loading: a manager is constructed on a stored file, well-formed or not. *)

\* a file holds at most MaxFileRows rows, the header included
MaxFileRows == 4

RowZeroAmount == <<"2024-12-31T09:00:00", "income", "0.0", "Food", "Salary">>
RowBadKind == <<"2024-12-31T09:00:00", "transfer", "1.0", "Food", "Salary">>
RowBadFrequency == <<"2024-12-31T09:00:00", "expense", "2.0", "Food", "Salary", "yearly">>
RowShort == <<"2024-12-31T09:00:00", "income", "1.0">>
RowBlank == <<>>
RowJan31Monthly == <<"2025-01-31T09:00:00", "expense", "2.0", "Food", "Salary", "monthly">>
RowNaN == <<"2024-12-31T09:00:00", "income", "nan", "Food", "Salary">>
RowEmptyFrequency == <<"2025-01-31T09:00:00", "expense", "2", "Food", "Salary", "">>

SampleRows ==
    {HEADER, RowPlain, RowMonthly, RowBadAmount, RowZeroAmount, RowBadKind,
     RowBadFrequency, RowShort, RowBlank, RowJan31Monthly, RowNaN, RowEmptyFrequency}

StoredFiles ==
    {NoFile} \cup {File(rows) : rows \in UNION {[1..n -> SampleRows] : n \in 0..MaxFileRows}}

InitLoad ==
    /\ \E file \in StoredFiles, io \in {"ok", "error"} :
          LET r == _load_from_file(file, io)
          IN /\ transactions = r.ts
             /\ hydrated = Len(r.ts)
             /\ added = <<>>
             /\ data_file = file
             /\ last = Call("FinanceManager", <<>>, r.exc, io, <<>>)
    /\ ctor = CtorIdle
    /\ monthly_limit = 0
    /\ budget_last = BudgetIdle

\* a new manager on the same file, the read succeeding or failing
Load ==
    /\ \E io \in {"ok", "error"} : Construct(data_file, io)
    /\ UNCHANGED <<ctor, monthly_limit, budget_last>>

NextLoad == Load

SpecLoad == InitLoad /\ [][NextLoad]_vars

---------------------------------------------------------------------------
(* class Budget.  Limits and expenses are integers and a quotient is the exact
   rational [num, den] with den > 0. *)

\* n / d; ZeroDivisionError when d = 0
Divide(n, d) ==
    IF d = 0 THEN Raised("ZeroDivisionError")
    ELSE IF d < 0 THEN Returned([num |-> -n, den |-> -d])
    ELSE Returned([num |-> n, den |-> d])

\* q * k
Times(q, k) == [num |-> q.num * k, den |-> q.den]

\* q <= k
RatLeq(q, k) == q.num <= k * q.den

\* Budget.__init__
Budget(limit) == limit

\* Budget.set_monthly_limit: the limit after the call and the exception raised
set_monthly_limit(current, limit) ==
    IF limit < 0 THEN [exc |-> "ValueError", limit |-> current]
    ELSE [exc |-> "none", limit |-> limit]

\* check_budget_status with "percentage < 70" for the first class
check_budget_status_strict(limit, current_expenses) ==
    IF limit = 0
    THEN [exc |-> "none", status |-> "Monthly budget not set", divided |-> FALSE,
          percentage |-> <<>>]
    ELSE LET quotient == Divide(current_expenses, limit)
         IN IF quotient.exc # "none"
            THEN [exc |-> quotient.exc, status |-> "", divided |-> TRUE, percentage |-> <<>>]
            ELSE LET percentage == Times(quotient.val[1], 100)
                     status == IF ~RatLeq(percentage, 70) \/ percentage.num = 70 * percentage.den
                               THEN (IF RatLeq(percentage, 90) THEN "Approaching limit"
                                     ELSE "Over budget")
                               ELSE "Within budget"
                 IN [exc |-> "none", status |-> status, divided |-> TRUE,
                     percentage |-> <<percentage>>]

\* Budget.check_budget_status: the classification returned, whether the division
\* was evaluated, and the percentage it gave
check_budget_status(limit, current_expenses) ==
    IF limit = 0
    THEN [exc |-> "none", status |-> "Monthly budget not set", divided |-> FALSE,
          percentage |-> <<>>]
    ELSE LET quotient == Divide(current_expenses, limit)
         IN IF quotient.exc # "none"
            THEN [exc |-> quotient.exc, status |-> "", divided |-> TRUE, percentage |-> <<>>]
            ELSE LET percentage == Times(quotient.val[1], 100)
                     status == IF RatLeq(percentage, 70) THEN "Within budget"
                               ELSE IF RatLeq(percentage, 90) THEN "Approaching limit"
                               ELSE "Over budget"
                 IN [exc |-> "none", status |-> status, divided |-> TRUE,
                     percentage |-> <<percentage>>]

BudgetLimits == {-100, -10, 0, 10, 30, 100, 1000}
BudgetExpenses == {-5, 0, 5, 7, 8, 9, 10, 21, 27, 28, 70, 71, 90, 91, 500, 700, 900, 950}

BudgetCall(op, arg, exc, out) == [op |-> op, arg |-> arg, exc |-> exc, out |-> out]

InitBudget ==
    /\ \E limit \in BudgetLimits :
          /\ monthly_limit = Budget(limit)
          /\ budget_last = BudgetCall("Budget", limit, "none", <<>>)
    /\ transactions = <<>>
    /\ hydrated = 0
    /\ added = <<>>
    /\ data_file = NoFile
    /\ last = Call("none", <<>>, "none", "none", <<>>)
    /\ ctor = CtorIdle

SetMonthlyLimit ==
    /\ \E limit \in BudgetLimits :
          LET r == set_monthly_limit(monthly_limit, limit)
          IN /\ monthly_limit' = r.limit
             /\ budget_last' = BudgetCall("set_monthly_limit", limit, r.exc, <<>>)
    /\ UNCHANGED <<transactions, data_file, hydrated, added, last, ctor>>

CheckBudgetStatus ==
    /\ \E current_expenses \in BudgetExpenses :
          LET r == check_budget_status(monthly_limit, current_expenses)
          IN budget_last' = BudgetCall("check_budget_status", current_expenses, r.exc, <<r>>)
    /\ UNCHANGED <<monthly_limit, transactions, data_file, hydrated, added, last, ctor>>

NextBudget == SetMonthlyLimit \/ CheckBudgetStatus

SpecBudget == InitBudget /\ [][NextBudget]_vars

---------------------------------------------------------------------------
(* Properties of the ledger, under Spec *)

\* the sum of the amounts of the records of ts whose index is in S, none being NaN
RECURSIVE IndexSum(_, _)
IndexSum(ts, S) ==
    IF S = {} THEN 0
    ELSE LET i == CHOOSE j \in S : TRUE
         IN ts[i].amount.v + IndexSum(ts, S \ {i})

\* the sum of amount over the records of a kind: NaN as soon as one amount is NaN
TotalOfKind(ts, kind) ==
    LET S == {i \in 1..Len(ts) : ts[i].type = kind}
    IN IF \E i \in S : ts[i].amount.nan THEN NaN ELSE Float(IndexSum(ts, S))

\* C1: in every reachable ledger, get_total_income and get_total_expenses are the
\* sums of amount over the stored records of their kind (0 for an empty ledger), and
\* get_balance is the first minus the second.
C1_BalanceIsIncomeMinusExpenses ==
    LET income == TotalOfKind(transactions, "income")
        expenses == TotalOfKind(transactions, "expense")
    IN /\ get_total_income(transactions) = income
       /\ get_total_expenses(transactions) = expenses
       /\ get_balance(transactions) = FSub(income, expenses)
       /\ transactions = <<>> =>
             /\ get_total_income(transactions) = Float(0)
             /\ get_total_expenses(transactions) = Float(0)
             /\ get_balance(transactions) = Float(0)

\* an income of 1 and an expense of 2 were added: the balance is -1
C1_Witness ==
    /\ last.op = "add_transaction"
    /\ Len(added) = 2
    /\ get_total_income(transactions) = Float(1)
    /\ get_total_expenses(transactions) = Float(2)
    /\ get_balance(transactions) = Float(-1)

\* C2: round trip.  In every reachable ledger the file a successful save_to_file
\* writes loads back as the same sequence of records (same fields, same variant,
\* same cadence), and a manager constructed right after a successful save holds the
\* ledger that was saved.
C2_RoundTrip ==
    /\ [](_load_from_file(save_to_file(transactions, data_file, "ok", 0).file, "ok").ts
             = transactions)
    /\ [][(last.op = "save_to_file" /\ last.io = "ok" /\ last'.op = "FinanceManager")
             => transactions' = transactions]_vars

\* a manager constructed on a file that save_to_file wrote, holding a plain and a
\* recurring record
C2_Witness ==
    /\ last.op = "FinanceManager"
    /\ hydrated = 2
    /\ data_file \notin LedgerFiles
    /\ \E i, j \in 1..Len(transactions) :
          /\ transactions[i].cls = "Transaction"
          /\ transactions[j].cls = "RecurringTransaction"

\* C4: the ledger is append-only.  The records after those the constructor loaded
\* are the Transaction arguments of the add_transaction calls, in call order; an add
\* of a Transaction appends it and touches nothing else, an add of anything else
\* raises TypeError and leaves the ledger as it was.
C4_AppendOnly ==
    /\ [](/\ hydrated <= Len(transactions)
          /\ SubSeq(transactions, hydrated + 1, Len(transactions)) = added)
    /\ [][last'.op = "add_transaction" =>
             LET x == last'.arg[1]
             IN IF x.cls \in {"Transaction", "RecurringTransaction"}
                THEN /\ last'.exc = "none"
                     /\ Len(transactions') = Len(transactions) + 1
                     /\ transactions' = Append(transactions, x)
                ELSE /\ last'.exc = "TypeError"
                     /\ transactions' = transactions]_vars

\* an add of something that is no Transaction was rejected after one record was
\* loaded and another added
C4_Witness ==
    /\ last.op = "add_transaction"
    /\ last.exc = "TypeError"
    /\ hydrated = 1
    /\ Len(added) = 1

\* C5: search_by_amount_range(min, max) returns the stored records with
\* min <= amount <= max, in ledger order, and nothing when min > max; the ledger is
\* as it was.
C5_AmountRange ==
    /\ [](last.op = "search_by_amount_range" =>
             LET lo == last.arg[1]
                 hi == last.arg[2]
                 inRange(i) == FLeq(lo, transactions[i].amount) /\ FLeq(transactions[i].amount, hi)
                 hits == {i \in 1..Len(transactions) : inRange(i)}
             IN /\ Len(last.out) = Cardinality(hits)
                /\ \A k \in 1..Len(last.out) :
                      \E i \in hits :
                         /\ last.out[k] = transactions[i]
                         /\ Cardinality({j \in hits : j <= i}) = k
                /\ FLt(hi, lo) => last.out = <<>>)
    /\ [][last'.op = "search_by_amount_range" => transactions' = transactions]_vars

\* a search from 2 to 2 on a ledger holding amounts 1 and 2: both bounds are met
C5_Witness ==
    /\ last.op = "search_by_amount_range"
    /\ last.arg = <<Float(2), Float(2)>>
    /\ Len(transactions) = 2
    /\ Len(last.out) = 1
    /\ \E i \in 1..2 : transactions[i].amount = Float(1)

\* C8: save_to_file leaves the ledger as it was and raises nothing, whether the
\* write succeeds or fails; when it succeeds the file holds the header and then the
\* row of each record, in order, and nothing else.
C8_SaveKeepsLedger ==
    [][last'.op = "save_to_file" =>
         /\ transactions' = transactions
         /\ last'.exc = "none"
         /\ last'.io = "ok" =>
               /\ data_file'.exists
               /\ Len(data_file'.rows) = Len(transactions) + 1
               /\ data_file'.rows[1] = HEADER
               /\ \A i \in 1..Len(transactions) :
                     data_file'.rows[i + 1] = to_csv_row(transactions[i])]_vars

\* a save of two records failed after the header and one row were written
C8_Witness ==
    /\ last.op = "save_to_file"
    /\ last.io = "write_failed"
    /\ Len(transactions) = 2
    /\ Len(data_file.rows) = 2

---------------------------------------------------------------------------
(* Properties of the constructors, under SpecCtor *)

\* C3: Transaction(...) raises ValueError and returns no object when amount <= 0 or
\* the kind is neither income nor expense; when amount > 0 and the kind is one of the
\* two it returns an object carrying the amount, description, category and kind
\* supplied, and the timestamp when one was supplied.
C3_TransactionValidation ==
    (ctor.op = "Transaction" /\ ctor.result # Pending) =>
        /\ (FLeq(ctor.amount, Float(0)) \/ ctor.transaction_type \notin {"income", "expense"}) =>
              /\ ctor.result.exc = "ValueError"
              /\ ctor.result.val = <<>>
        /\ (FLt(Float(0), ctor.amount) /\ ctor.transaction_type \in {"income", "expense"}) =>
              /\ ctor.result.exc = "none"
              /\ Len(ctor.result.val) = 1
              /\ ctor.result.val[1].amount = ctor.amount
              /\ ctor.result.val[1].description = ctor.description
              /\ ctor.result.val[1].category = ctor.category
              /\ ctor.result.val[1].type = ctor.transaction_type
              /\ ctor.timestamp # None => ctor.result.val[1].timestamp = ctor.timestamp[1]

\* Transaction(0, ..., "income", t) was called and raised ValueError
C3_Witness ==
    /\ ctor.op = "Transaction"
    /\ ctor.amount = Float(0)
    /\ ctor.transaction_type = "income"
    /\ ctor.timestamp # None
    /\ ctor.result = Raised("ValueError")

\* the day after t
NextDay(t) ==
    IF t.day < DaysInMonth(t.year, t.month) THEN [t EXCEPT !.day = t.day + 1]
    ELSE IF t.month < 12 THEN [t EXCEPT !.month = t.month + 1, !.day = 1]
    ELSE [t EXCEPT !.year = t.year + 1, !.month = 1, !.day = 1]

RECURSIVE DaysLater(_, _)
DaysLater(t, n) == IF n = 0 THEN t ELSE DaysLater(NextDay(t), n - 1)

\* a is strictly earlier than b, field by field
Earlier(a, b) ==
    \/ a.year < b.year
    \/ a.year = b.year /\ a.month < b.month
    \/ a.year = b.year /\ a.month = b.month /\ a.day < b.day
    \/ a.year = b.year /\ a.month = b.month /\ a.day = b.day /\ a.hour < b.hour

\* C7: a RecurringTransaction that was constructed has a valid cadence and a
\* next_occurrence: the timestamp plus 1 day (daily) or 7 days (weekly), or the same
\* day and time in the following month (monthly), December giving January of the
\* next year; next_occurrence is strictly later than the timestamp.
C7_NextOccurrence ==
    (ctor.op = "RecurringTransaction" /\ ctor.result # Pending /\ ctor.result.exc = "none") =>
        LET r == ctor.result.val[1]
            t == r.timestamp
            next == r.next_occurrence
        IN /\ r.frequency = ctor.frequency
           /\ r.frequency \in {"daily", "weekly", "monthly"}
           /\ t = (IF ctor.timestamp # None THEN ctor.timestamp[1] ELSE ctor.now)
           /\ r.frequency = "daily" => next = DaysLater(t, 1)
           /\ r.frequency = "weekly" => next = DaysLater(t, 7)
           /\ r.frequency = "monthly" =>
                 /\ next.day = t.day
                 /\ next.hour = t.hour
                 /\ t.month < 12 => next.month = t.month + 1 /\ next.year = t.year
                 /\ t.month = 12 => next.month = 1 /\ next.year = t.year + 1
           /\ Earlier(t, next)

\* a monthly RecurringTransaction was constructed with a timestamp in December
C7_Witness ==
    /\ ctor.op = "RecurringTransaction"
    /\ ctor.frequency = "monthly"
    /\ ctor.timestamp = Some(DateTime(2024, 12, 31, 9))
    /\ ctor.result.exc = "none"
    /\ ctor.result.val[1].next_occurrence = DateTime(2025, 1, 31, 9)

---------------------------------------------------------------------------
(* Properties of the budget, under SpecBudget *)

\* C6: check_budget_status reports "not set" exactly when the limit is 0, and then
\* divides nothing; otherwise, with percentage = current_expenses / limit * 100, it
\* answers "within budget" when percentage <= 70, "approaching limit" when
\* 70 < percentage <= 90 and "over budget" when percentage > 90.  The comparisons
\* are stated without a division: for a limit > 0, percentage <= k is
\* 100 * expenses <= k * limit, and for a limit < 0 it is 100 * expenses >= k * limit.
C6_BudgetStatus ==
    budget_last.op = "check_budget_status" =>
        LET r == budget_last.out[1]
            e == budget_last.arg
            atMost(k) == IF monthly_limit > 0 THEN 100 * e <= k * monthly_limit
                         ELSE 100 * e >= k * monthly_limit
        IN /\ r.exc = "none"
           /\ r.status \in {"Monthly budget not set", "Within budget", "Approaching limit",
                             "Over budget"}
           /\ r.status = "Monthly budget not set" <=> monthly_limit = 0
           /\ monthly_limit = 0 => ~r.divided
           /\ monthly_limit # 0 =>
                 /\ r.status = "Within budget" <=> atMost(70)
                 /\ r.status = "Approaching limit" <=> (~atMost(70) /\ atMost(90))
                 /\ r.status = "Over budget" <=> ~atMost(90)

\* expenses of 7 against a limit of 10 are exactly 70%: within budget
C6_Witness ==
    /\ budget_last.op = "check_budget_status"
    /\ monthly_limit = 10
    /\ budget_last.arg = 7
    /\ budget_last.out[1].status = "Within budget"

\* C9: the monthly limit is never negative, and set_monthly_limit with a negative
\* limit raises ValueError.
C9_LimitNeverNegative ==
    /\ monthly_limit >= 0
    /\ (budget_last.op = "set_monthly_limit" /\ budget_last.arg < 0) =>
          budget_last.exc = "ValueError"

---------------------------------------------------------------------------
(* Properties of loading, under SpecLoad *)

\* a data row that _load_from_file turns into a record: five fields or more, a
\* date-time, a number that is not <= 0, a kind, and when a sixth field is there and
\* not empty, a cadence whose next occurrence exists
RowLoads(row) ==
    /\ Len(row) >= 5
    /\ fromisoformat(row[1]).exc = "none"
    /\ ParseFloat(row[3]).exc = "none"
    /\ ~FLeq(ParseFloat(row[3]).val[1], Float(0))
    /\ row[2] \in {"income", "expense"}
    /\ (Len(row) > 5 /\ row[6] # "") =>
          /\ row[6] \in {"daily", "weekly", "monthly"}
          /\ row[6] = "monthly" =>
                LET t == fromisoformat(row[1]).val[1]
                IN IF t.month = 12 THEN ValidDate(t.year + 1, 1, t.day)
                   ELSE ValidDate(t.year, t.month + 1, t.day)

\* the record r holds what the row says
RecordOfRow(r, row) ==
    /\ isoformat(r.timestamp) = row[1]
    /\ r.type = row[2]
    /\ r.amount = ParseFloat(row[3]).val[1]
    /\ r.category = row[4]
    /\ r.description = row[5]
    /\ IF Len(row) > 5 /\ row[6] # ""
       THEN r.cls = "RecurringTransaction" /\ r.frequency = row[6]
       ELSE r.cls = "Transaction"

\* C10: constructing a manager raises nothing.  Without a file the ledger is empty;
\* with a file that was read, k being the first data row that does not load (or one
\* past the last row), the ledger holds the records of data rows 1..k-1 in file
\* order and nothing else, whatever the rows after k are.
C10_PartialLoad ==
    last.op = "FinanceManager" =>
        /\ last.exc = "none"
        /\ ~data_file.exists => transactions = <<>>
        /\ (data_file.exists /\ last.io = "ok") =>
              LET data == IF data_file.rows = <<>> THEN <<>> ELSE Tail(data_file.rows)
                  bad == {i \in 1..Len(data) : ~RowLoads(data[i])}
                  k == IF bad = {} THEN Len(data) + 1
                       ELSE CHOOSE i \in bad : \A j \in bad : i <= j
              IN /\ Len(transactions) = k - 1
                 /\ \A i \in 1..(k - 1) : RecordOfRow(transactions[i], data[i])

\* a file whose second data row has a non-numeric amount and whose third is
\* well-formed: the ledger holds the first record only
C10_Witness ==
    /\ last.op = "FinanceManager"
    /\ last.io = "ok"
    /\ data_file = File(<<HEADER, RowMonthly, RowBadAmount, RowPlain>>)
    /\ Len(transactions) = 1
    /\ transactions[1].cls = "RecurringTransaction"

---------------------------------------------------------------------------
(* Properties of the stored records *)

\* C11: every stored record has amount > 0 and a kind in {income, expense}, and every
\* stored recurring record a cadence in {daily, weekly, monthly}.
C11_RecordsValid ==
    \A i \in 1..Len(transactions) :
        LET r == transactions[i]
        IN /\ FLt(Float(0), r.amount)
           /\ r.type \in {"income", "expense"}
           /\ r.cls = "RecurringTransaction" => r.frequency \in {"daily", "weekly", "monthly"}

\* the number of days of month m of year y, from the calendar
MonthLength(y, m) ==
    CASE m \in {1, 3, 5, 7, 8, 10, 12} -> 31
      [] m \in {4, 6, 9, 11} -> 30
      [] OTHER -> IF (y % 4 = 0 /\ y % 100 # 0) \/ y % 400 = 0 THEN 29 ELSE 28

\* C12: a monthly RecurringTransaction whose day of the month does not exist in the
\* following month is not constructed: the call raises and returns no object; and a
\* monthly RecurringTransaction that is constructed has the day of its timestamp,
\* which exists in the month of next_occurrence.
C12_NoClampOnShortMonth ==
    (ctor.op = "RecurringTransaction" /\ ctor.result # Pending /\ ctor.frequency = "monthly") =>
        LET t == IF ctor.timestamp # None THEN ctor.timestamp[1] ELSE ctor.now
            fy == IF t.month = 12 THEN t.year + 1 ELSE t.year
            fm == IF t.month = 12 THEN 1 ELSE t.month + 1
        IN /\ t.day > MonthLength(fy, fm) =>
                 /\ ctor.result.exc # "none"
                 /\ ctor.result.val = <<>>
           /\ ctor.result.exc = "none" =>
                 /\ ctor.result.val[1].next_occurrence.day = t.day
                 /\ t.day <= MonthLength(ctor.result.val[1].next_occurrence.year,
                                         ctor.result.val[1].next_occurrence.month)

\* RecurringTransaction(2, ..., "expense", "monthly", 2025-01-31 09:00) was called and
\* raised ValueError
C12_Witness ==
    /\ ctor.op = "RecurringTransaction"
    /\ ctor.frequency = "monthly"
    /\ ctor.amount = Float(2)
    /\ ctor.transaction_type = "expense"
    /\ ctor.timestamp = Some(DateTime(2025, 1, 31, 9))
    /\ ctor.result = Raised("ValueError")

====
